---- MODULE Spec2Model ----
(***************************************************************************)
(* Tic Tac Toe AI engine (tic_tac_toe/ai/ai_player.py) together with the   *)
(* helpers it calls (tic_tac_toe/core/helper_methods.py) and the part of   *)
(* the game logic that hands it the board (tic_tac_toe/core/logic_game.py).*)
(*                                                                         *)
(* Boards are sequences of rows, rows are sequences of cells; the source's *)
(* 0-based coordinate (r, c) is the tuple <<r, c>> and addresses           *)
(* board[r + 1][c + 1].  A Python string is a sequence of one-character    *)
(* strings.  Fractional heuristic weights are kept in hundredths.          *)
(***************************************************************************)
EXTENDS Integers, Sequences, FiniteSets, TLC

VARIABLES size_board, current_moves, mapping_moves, winning_combos,
          level, cache, winner_exists, predict_tie, moves_made, result

vars == <<size_board, current_moves, mapping_moves, winning_combos,
          level, cache, winner_exists, predict_tie, moves_made, result>>

\* ------------------------------------------------------------------------
\* Bounds of the model
\* ------------------------------------------------------------------------
\* Moves committed through _process_move since the board was last set up.
MaxMoves == 1

\* Largest number of clock readings after which a time-out is tried.
MaxBudget == 1

\* A search that runs to completion is started on at most this many empty
\* cells.
MaxSearchCells == 7

\* ------------------------------------------------------------------------
\* Literals (tic_tac_toe/core/literals.py) and difficulty configuration
\* ------------------------------------------------------------------------
UNDERSCORE == "_"
EMPTY == ""
AI_MARK == "O"
PLAYER_MARK == "X"

\* The animals the detailed board stores for the machine and for the human.
MACHINE_ANIMAL == "O"
HUMAN_ANIMAL == "X"

Marks == {UNDERSCORE, AI_MARK, PLAYER_MARK}

\* Python None where an int is expected (max_depth, a missing "depth").
NoDepth == -1

\* AIConfig.SETTINGS[level]["depth"]
AIConfigDepth(lv) ==
    CASE lv = "MEDIUM" -> 3
      [] lv = "HARD" -> 4
      [] OTHER -> NoDepth

WIN_SCORE == 10

\* float('inf'): larger than every score the engine computes.
INF == 1000

\* A time budget that no search exhausts (the clock never passes the limit).
NoTimeout == 1000000

\* ------------------------------------------------------------------------
\* Small helpers
\* ------------------------------------------------------------------------
\* A Python list: the sequence f built once, element by element.
List(f) == f \o <<>>

Cell(map, r, c) == map[r + 1][c + 1]

SetCell(map, r, c, v) == [map EXCEPT ![r + 1][c + 1] = v]

RECURSIVE SumRange(_, _, _)
SumRange(s, lo, hi) ==
    IF lo > hi THEN 0
    ELSE IF lo = hi THEN s[lo]
    ELSE SumRange(s, lo, (lo + hi) \div 2)
         + SumRange(s, (lo + hi) \div 2 + 1, hi)

SumSeq(s) == SumRange(s, 1, Len(s))

MaxSeq(s) == CHOOSE m \in {s[i] : i \in 1..Len(s)} :
                 \A i \in 1..Len(s) : m >= s[i]

RECURSIVE Flatten(_)
Flatten(ss) == IF ss = <<>> THEN <<>> ELSE Head(ss) \o Flatten(Tail(ss))

Count(s, v) == Cardinality({i \in 1..Len(s) : s[i] = v})

SeqToSet(s) == {s[i] : i \in 1..Len(s)}

\* ------------------------------------------------------------------------
\* helper_methods.py: board serialization
\* ------------------------------------------------------------------------
\* board_to_str with every cell that is not Self's written as UNDERSCORE
board_to_str_blank(mapping) ==
    LET flat == Flatten(mapping)
    IN  List([i \in 1..Len(flat) |->
                 IF flat[i] = AI_MARK THEN AI_MARK ELSE UNDERSCORE])

\* "".join(cell if cell else UNDERSCORE for row in mapping for cell in row)
board_to_str(mapping) ==
    LET flat == Flatten(mapping)
    IN  List([i \in 1..Len(flat) |->
                 IF flat[i] = EMPTY THEN UNDERSCORE ELSE flat[i]])

\* [list(board_str[i:i + size]) for i in range(0, expected, size)]
str_to_board(board_str, size) ==
    List([k \in 1..size |->
             SubSeq(board_str, (k - 1) * size + 1, k * size)])

\* ------------------------------------------------------------------------
\* helper_methods.py: positional and symmetry bonuses (hundredths)
\* ------------------------------------------------------------------------
CenterCells(size) ==
    LET center == size \div 2
    IN  IF size % 2 = 1 THEN {<<center, center>>}
        ELSE {<<center - 1, center - 1>>, <<center - 1, center>>,
              <<center, center - 1>>, <<center, center>>}

positional_score_extended(row, col, size) ==
    LET center == size \div 2
    IN  (IF <<row, col>> \in CenterCells(size) THEN 15 ELSE 0)
      + (IF <<row, col>> \in {<<0, 0>>, <<0, size - 1>>, <<size - 1, 0>>,
                              <<size - 1, size - 1>>} THEN 8 ELSE 0)
      + (IF row = col \/ row + col = size - 1 THEN 5 ELSE 0)
      + (IF row = center \/ col = center THEN 4 ELSE 0)
      + (IF row \in {0, size - 1} \/ col \in {0, size - 1} THEN 2 ELSE 0)

symmetry_score(positions, size) ==
    LET center == size \div 2
        idx == 1..Len(positions)
    IN  IF positions = <<>> THEN 0
        ELSE (IF \A i \in idx : positions[i][1] = positions[i][2]
                THEN 150 ELSE 0)
           + (IF \A i \in idx : positions[i][1] + positions[i][2] = size - 1
                THEN 150 ELSE 0)
           + (IF \E i \in idx : positions[i] \in CenterCells(size)
                THEN 100 ELSE 0)
           + (IF \E i \in idx : positions[i][1] = center THEN 50 ELSE 0)
           + (IF \E i \in idx : positions[i][2] = center THEN 50 ELSE 0)

\* ------------------------------------------------------------------------
\* helper_methods.py: line scoring
\* ------------------------------------------------------------------------
is_winning_combo(combo) ==
    /\ \A i \in 1..Len(combo) : combo[i] = combo[1]
    /\ combo[1] # UNDERSCORE

\* Result in hundredths.
calculate_boost_score(combo, positions, size, board) ==
    LET ai == Count(combo, AI_MARK)
        player == Count(combo, PLAYER_MARK)
        empty == Count(combo, UNDERSCORE)
        positional_bonus ==
            SumSeq(List([i \in 1..Len(positions) |->
                IF Cell(board, positions[i][1], positions[i][2]) = UNDERSCORE
                THEN positional_score_extended(positions[i][1],
                                               positions[i][2], size)
                ELSE 0]))
        base_score ==
              (IF ai = size - 1 /\ empty = 1 THEN 100 ELSE 0)
            + (IF player = size - 1 /\ empty = 1 THEN 90 ELSE 0)
            + (IF ai = size - 2 /\ empty = 2 THEN 15 ELSE 0)
            + (IF player = size - 2 /\ empty = 2 THEN 14 ELSE 0)
            + (IF ai = size - 3 /\ empty = 3 THEN 6 ELSE 0)
            + (IF player = size - 3 /\ empty = 3 THEN 5 ELSE 0)
            + (IF ai = 1 /\ empty = size - 1 THEN 3 ELSE 0)
            + (IF player = 1 /\ empty = size - 1 THEN 2 ELSE 0)
            + (IF empty = size THEN 1 ELSE 0)
            + (IF ai = size - 2 /\ player = 0 /\ empty = 2 THEN 5 ELSE 0)
            + (IF player > ai /\ empty > 0 THEN -2 ELSE 0)
    IN  IF ai > 0 /\ player > 0 THEN 0
        ELSE base_score * 100 + positional_bonus
             + symmetry_score(positions, size)

\* Python int(): truncation toward zero of a value given in hundredths.
IntTrunc(h) == IF h >= 0 THEN h \div 100 ELSE -((-h) \div 100)

\* score_combo without the test of whose line it is
score_combo_unsigned(combo, positions, boost, size, board) ==
    IF (\A i \in 1..Len(combo) : combo[i] = combo[1])
       /\ combo[1] # UNDERSCORE
    THEN WIN_SCORE
    ELSE IF boost
         THEN IntTrunc(calculate_boost_score(combo, positions, size, board))
         ELSE 0

score_combo(combo, positions, boost, size, board) ==
    IF (\A i \in 1..Len(combo) : combo[i] = combo[1])
       /\ combo[1] # UNDERSCORE
    THEN (IF combo[1] = AI_MARK THEN WIN_SCORE ELSE -WIN_SCORE)
    ELSE IF boost
         THEN IntTrunc(calculate_boost_score(combo, positions, size, board))
         ELSE 0

\* values = [map[r][c] for r, c in combo]
ComboValues(map, combo) ==
    List([i \in 1..Len(combo) |-> Cell(map, combo[i][1], combo[i][2])])

\* ------------------------------------------------------------------------
\* ai_player.py: scoring.  Every operator takes the engine's own fields
\* (size, combos, mapping) explicitly; map is the optional override.
\* ------------------------------------------------------------------------
\* _calculate_base_score without the early return
calculate_base_score_sum(map, size, combos, mapping) ==
    SumSeq(List([i \in 1..Len(combos) |->
                    score_combo(ComboValues(map, combos[i]), combos[i],
                                FALSE, size, mapping)]))

\* for combo in self._winning_combos: the first line that scores +/-10 is
\* returned at once, otherwise the scores are added up
calculate_base_score(map, size, combos, mapping) ==
    LET scores == List([i \in 1..Len(combos) |->
                      score_combo(ComboValues(map, combos[i]), combos[i],
                                  FALSE, size, mapping)])
        wins == {i \in 1..Len(combos) : scores[i] \in {WIN_SCORE, -WIN_SCORE}}
    IN  IF wins = {} THEN SumSeq(scores)
        ELSE scores[CHOOSE i \in wins : \A j \in wins : i <= j]

\* Python round() of x / 5; x / 5 is never half way between two integers.
RoundFifths(x) ==
    LET q == x \div 5
        r == x % 5
    IN  IF r >= 3 THEN q + 1 ELSE q

\* the loop of _apply_boost that fills boost_scores
BoostScores(map, size, combos, mapping) ==
    LET open == SelectSeq(combos,
                    LAMBDA combo : ~is_winning_combo(ComboValues(map, combo)))
    IN  List([j \in 1..Len(open) |->
                 score_combo(ComboValues(map, open[j]), open[j], TRUE, size,
                             mapping)])

\* sum(s for s in boost_scores if s != max_boost)
SumOthers(boost_scores, max_boost) ==
    SumSeq(List([i \in 1..Len(boost_scores) |->
               IF boost_scores[i] # max_boost THEN boost_scores[i] ELSE 0]))

apply_boost(base_score, map, size, combos, mapping) ==
    LET boost_scores == BoostScores(map, size, combos, mapping)
    IN  IF boost_scores = <<>> THEN base_score
        ELSE LET max_boost == MaxSeq(boost_scores)
                 other_boosts == SumOthers(boost_scores, max_boost)
             IN  RoundFifths(5 * (base_score + max_boost) + other_boosts)

evaluate_ai_score(boost, map, size, combos, mapping) ==
    LET base_score == calculate_base_score(map, size, combos, mapping)
    IN  IF boost THEN apply_boost(base_score, map, size, combos, mapping)
        ELSE base_score

\* ------------------------------------------------------------------------
\* ai_player.py: board tools
\* ------------------------------------------------------------------------
\* (r, c) for r in range(size) for c in range(size)
AllCoords(size) ==
    List([k \in 1..(size * size) |->
             <<(k - 1) \div size, (k - 1) % size>>])

\* available = [(r, c) for r ... for c ... if board[r][c] == empty_mark]
Available(symbols, size, empty_mark) ==
    SelectSeq(AllCoords(size),
              LAMBDA pos : Cell(symbols, pos[1], pos[2]) = empty_mark)

\* _get_remaining_moves(all_moves=True, mapping=True)
remaining_moves_mapping(map, size) == Available(map, size, UNDERSCORE)

\* _get_remaining_moves without the test for an empty cell
remaining_moves_unfiltered(moves, size) == AllCoords(size)

\* _get_remaining_moves(all_moves=True): reads the detailed board
remaining_moves_logical(moves, size) ==
    Available(List([r \in 1..size |->
                       List([c \in 1..size |-> moves[r][c].animal])]),
              size, EMPTY)

\* ------------------------------------------------------------------------
\* ai_player.py: minimax engine core.
\* ctx = [size, combos, max_depth, use_time_limit, budget] is fixed during a
\* call; st = [map, cache, n, hits, cuts, outs, loops, stores, deep] is what the
\* call mutates: the symbol board, the cache and the number of clock
\* readings made so far (the clock is past the limit from reading number
\* ctx.budget on); hits, cuts, outs, loops and stores count the cache hits,
\* the pruning cutoffs, the time-out exits, the child loops entered and the
\* cache writes of the call, deep is the greatest number of search frames
\* nested at any moment of it.  A for loop of the code is a step operator applied to
\* a loop record ls for the indices 1, 2, ... in turn, each step to the
\* outcome of the one before; ls.stop is set by a break, and no loop goes
\* on once it is set.
\* ------------------------------------------------------------------------
\* _is_time_exceeded one reading of the clock late
is_time_exceeded_late(ctx, st) == st.n > ctx.budget

is_time_exceeded(ctx, st) == st.n >= ctx.budget

get_cache_key(st) == board_to_str(st.map)

\* self._cache[key] = val
CachePut(c, key, val) == (key :> val) @@ c

\* _evaluate_terminal_state without the depth adjustment
evaluate_terminal_state_flat(ctx, st, depth) ==
    LET score == evaluate_ai_score(FALSE, st.map, ctx.size, ctx.combos, st.map)
    IN  IF score = WIN_SCORE \/ score = -WIN_SCORE
        THEN [terminal |-> TRUE, score |-> score]
        ELSE IF remaining_moves_mapping(st.map, ctx.size) = <<>>
             THEN [terminal |-> TRUE, score |-> 0]
             ELSE [terminal |-> FALSE, score |-> 0]

\* _evaluate_terminal_state adding the depth to a win of Self
terminal_state_of_slower(score, no_moves, depth) ==
    IF score = WIN_SCORE THEN [terminal |-> TRUE, score |-> score + depth]
    ELSE IF score = -WIN_SCORE
    THEN [terminal |-> TRUE, score |-> score + depth]
    ELSE IF no_moves THEN [terminal |-> TRUE, score |-> 0]
    ELSE [terminal |-> FALSE, score |-> 0]

\* if score == 10: return True, score - depth
\* elif score == -10: return True, score + depth
\* elif not remaining: return True, 0
\* return False, 0
terminal_state_of(score, no_moves, depth) ==
    IF score = WIN_SCORE THEN [terminal |-> TRUE, score |-> score - depth]
    ELSE IF score = -WIN_SCORE
    THEN [terminal |-> TRUE, score |-> score + depth]
    ELSE IF no_moves THEN [terminal |-> TRUE, score |-> 0]
    ELSE [terminal |-> FALSE, score |-> 0]

evaluate_terminal_state(ctx, st, depth) ==
    terminal_state_of(
        evaluate_ai_score(FALSE, st.map, ctx.size, ctx.combos, st.map),
        remaining_moves_mapping(st.map, ctx.size) = <<>>,
        depth)

move_priority(pos, size) ==
    LET center == size \div 2
    IN  IF pos = <<center, center>> THEN 3
        ELSE IF pos[1] \in {0, size - 1} /\ pos[2] \in {0, size - 1} THEN 2
        ELSE 1

\* remaining_moves.sort(key=move_priority, reverse=True): a stable sort, so
\* moves of equal priority keep their order
SortByPriority(ms, size) ==
       SelectSeq(ms, LAMBDA pos : move_priority(pos, size) = 3)
    \o SelectSeq(ms, LAMBDA pos : move_priority(pos, size) = 2)
    \o SelectSeq(ms, LAMBDA pos : move_priority(pos, size) = 1)

\* The loop body with the break placed before the mark is taken back.
after_child_break_first(ls, pos, turn_max, child) ==
    LET val == child.val
        best == IF turn_max THEN (IF val > ls.best THEN val ELSE ls.best)
                ELSE (IF val < ls.best THEN val ELSE ls.best)
        alpha == IF turn_max /\ val > ls.alpha THEN val ELSE ls.alpha
        beta == IF ~turn_max /\ val < ls.beta THEN val ELSE ls.beta
        undone == [child.st EXCEPT
                      !.map = SetCell(@, pos[1], pos[2], UNDERSCORE)]
    IN  [val |-> child.val, best |-> best, alpha |-> alpha, beta |-> beta,
         stop |-> beta <= alpha,
         st |-> IF beta <= alpha THEN [child.st EXCEPT !.cuts = @ + 1]
                ELSE undone]

\* The body of the for loop of _minimax_core once the child is evaluated:
\* best, alpha and beta are updated, the mark is taken back, and
\* beta <= alpha breaks the loop.
after_child(ls, pos, turn_max, child) ==
    LET val == child.val
        best == IF turn_max THEN (IF val > ls.best THEN val ELSE ls.best)
                ELSE (IF val < ls.best THEN val ELSE ls.best)
        alpha == IF turn_max /\ val > ls.alpha THEN val ELSE ls.alpha
        beta == IF ~turn_max /\ val < ls.beta THEN val ELSE ls.beta
        undone == [child.st EXCEPT
                      !.map = SetCell(@, pos[1], pos[2], UNDERSCORE)]
    IN  [val |-> child.val, best |-> best, alpha |-> alpha, beta |-> beta,
         stop |-> beta <= alpha,
         st |-> IF beta <= alpha THEN [undone EXCEPT !.cuts = @ + 1]
                ELSE undone]

\* self._cache[key] = alpha in place of best
cache_store_alpha(key, loop) ==
    [val |-> loop.best,
     st |-> [loop.st EXCEPT !.cache = CachePut(@, key, loop.alpha),
                            !.stores = @ + 1]]

\* self._cache[key] = best skipped when the loop ended by break
cache_store_unless_cut(key, loop) ==
    [val |-> loop.best,
     st |-> IF loop.stop THEN loop.st
            ELSE [loop.st EXCEPT !.cache = CachePut(@, key, loop.best),
                                 !.stores = @ + 1]]

\* self._cache[key] = best; return best
cache_store(key, loop) ==
    [val |-> loop.best,
     st |-> [loop.st EXCEPT !.cache = CachePut(@, key, loop.best),
                            !.stores = @ + 1]]

RECURSIVE minimax_core(_, _, _, _, _, _)
RECURSIVE minimax_children(_, _, _, _, _, _)

\* Iteration number i of the for loop of _minimax_core.
child_step(ctx, ls, depth, turn_max, ms, i) ==
    after_child(ls, ms[i], turn_max,
        minimax_core(ctx,
            [ls.st EXCEPT !.map = SetCell(@, ms[i][1], ms[i][2],
                         IF turn_max THEN AI_MARK ELSE PLAYER_MARK)],
            depth + 1, ~turn_max, ls.alpha, ls.beta))

\* The for loop of _minimax_core from iteration i on.
minimax_children(ctx, ls, depth, turn_max, ms, i) ==
    IF ls.stop \/ i > Len(ms) THEN ls
    ELSE minimax_children(ctx,
             child_step(ctx, ls, depth, turn_max, ms, i),
             depth, turn_max, ms, i + 1)

\* A node entered at depth whose frame lies one frame deeper than its depth
\* says, as when the root loop entered the search through a frame of its own.
clock_read_nested(ctx, st, depth) ==
    [st EXCEPT !.n = IF ctx.use_time_limit THEN @ + 1 ELSE @,
               !.deep = IF depth + 2 > @ THEN depth + 2 ELSE @]

\* A node entered at depth: the clock reading of _is_time_exceeded, made
\* when use_time_limit holds, and the nesting of the recursion it stands at.
clock_read(ctx, st, depth) ==
    [st EXCEPT !.n = IF ctx.use_time_limit THEN @ + 1 ELSE @,
               !.deep = IF depth + 1 > @ THEN depth + 1 ELSE @]

minimax_core(ctx, st, depth, turn_max, alpha, beta) ==
    LET key == get_cache_key(st)
        state == evaluate_terminal_state(ctx, st, depth)
    IN  IF ctx.use_time_limit /\ is_time_exceeded(ctx, st)
        THEN [val |-> evaluate_ai_score(FALSE, st.map, ctx.size,
                                        ctx.combos, st.map),
              st |-> [clock_read(ctx, st, depth) EXCEPT !.outs = @ + 1]]
        ELSE IF ctx.max_depth # NoDepth /\ depth >= ctx.max_depth
        THEN [val |-> evaluate_ai_score(FALSE, st.map, ctx.size,
                                        ctx.combos, st.map),
              st |-> clock_read(ctx, st, depth)]
        ELSE IF key \in DOMAIN st.cache
        THEN [val |-> st.cache[key],
              st |-> [clock_read(ctx, st, depth) EXCEPT !.hits = @ + 1]]
        ELSE IF state.terminal
        THEN [val |-> state.score, st |-> clock_read(ctx, st, depth)]
        ELSE cache_store(key,
                 minimax_children(ctx,
                     [st |-> [clock_read(ctx, st, depth) EXCEPT !.loops = @ + 1],
                      alpha |-> alpha, beta |-> beta,
                      best |-> IF turn_max THEN -INF ELSE INF,
                      stop |-> FALSE, val |-> 0],
                     depth, turn_max,
                     SortByPriority(
                         remaining_moves_mapping(st.map, ctx.size),
                         ctx.size),
                     1))

\* min_max_hard: max_depth from the HARD configuration, no clock
min_max_hard(size, combos, st, depth, turn_max, alpha, beta) ==
    minimax_core([size |-> size, combos |-> combos,
                  max_depth |-> AIConfigDepth("HARD"),
                  use_time_limit |-> FALSE, budget |-> NoTimeout],
                 st, depth, turn_max, alpha, beta)

\* min_max_very_hard: no depth limit, clock on
min_max_very_hard(size, combos, budget, st, depth, turn_max, alpha, beta) ==
    minimax_core([size |-> size, combos |-> combos, max_depth |-> NoDepth,
                  use_time_limit |-> TRUE, budget |-> budget],
                 st, depth, turn_max, alpha, beta)

\* ------------------------------------------------------------------------
\* ai_player.py: MEDIUM level
\* ------------------------------------------------------------------------
\* The body of the loops of min_max_medium once the child is evaluated.
after_medium_child(ls, pos, turn_max, child) ==
    [val |-> child.val,
     best |-> IF turn_max
              THEN (IF child.val > ls.best THEN child.val ELSE ls.best)
              ELSE (IF child.val < ls.best THEN child.val ELSE ls.best),
     st |-> [child.st EXCEPT !.map = SetCell(@, pos[1], pos[2], UNDERSCORE)],
     stop |-> FALSE]

\* return best_eval
medium_return(loop) == [val |-> loop.best, st |-> loop.st]

RECURSIVE min_max_medium(_, _, _, _, _, _)
RECURSIVE medium_children(_, _, _, _, _, _, _)

\* for row ...: for col ...: cell number i of min_max_medium's two loops
medium_step(size, combos, ls, depth, turn_max, max_depth, i) ==
    IF Cell(ls.st.map, (i - 1) \div size, (i - 1) % size) # UNDERSCORE
    THEN ls
    ELSE after_medium_child(ls, <<(i - 1) \div size, (i - 1) % size>>,
             turn_max,
             min_max_medium(size, combos,
                 [ls.st EXCEPT !.map = SetCell(@, (i - 1) \div size,
                              (i - 1) % size,
                              IF turn_max THEN AI_MARK ELSE PLAYER_MARK)],
                 depth + 1, ~turn_max, max_depth))

\* The nested row/col loops of min_max_medium from cell number i on.
medium_children(size, combos, ls, depth, turn_max, max_depth, i) ==
    IF ls.stop \/ i > size * size THEN ls
    ELSE medium_children(size, combos,
             medium_step(size, combos, ls, depth, turn_max, max_depth, i),
             depth, turn_max, max_depth, i + 1)

\* min_max_medium from the test of the score on
medium_node(score, size, combos, st, depth, turn_max, max_depth) ==
    IF score \in {WIN_SCORE, -WIN_SCORE}
    THEN [val |-> IF turn_max THEN score - depth ELSE score + depth,
          st |-> st]
    ELSE IF remaining_moves_mapping(st.map, size) = <<>>
            \/ depth >= max_depth
    THEN [val |-> 0, st |-> st]
    ELSE medium_return(medium_children(size, combos,
             [val |-> 0, st |-> st, stop |-> FALSE,
              best |-> IF turn_max THEN -INF ELSE INF],
             depth, turn_max, max_depth, 1))

\* min_max_medium writing the board it evaluates into self.cache
min_max_medium_cached(size, combos, st, depth, turn_max, max_depth) ==
    medium_node(evaluate_ai_score(FALSE, st.map, size, combos, st.map),
                size, combos,
                [st EXCEPT !.deep = IF depth + 1 > @ THEN depth + 1 ELSE @,
                           !.cache = CachePut(@, board_to_str(st.map), 0)],
                depth, turn_max, max_depth)

min_max_medium(size, combos, st, depth, turn_max, max_depth) ==
    medium_node(evaluate_ai_score(FALSE, st.map, size, combos, st.map),
                size, combos,
                [st EXCEPT !.deep = IF depth + 1 > @ THEN depth + 1 ELSE @],
                depth, turn_max, max_depth)

\* _should_skip_minimax_opening testing self._size_board > 3
should_skip_minimax_opening_larger(size, empty_cells) ==
    size > 3 /\ Len(empty_cells) > size * size - 4

\* _should_skip_minimax_opening
should_skip_minimax_opening(size, empty_cells) ==
    size = 4 /\ Len(empty_cells) > size * size - 4

\* ------------------------------------------------------------------------
\* ai_player.py: root loops.  Each select operator returns
\* [kind, moves, st, values, top]: kind is "move" or the name of the
\* exception raised, moves the set of coordinates the call can return (one
\* unless random.choice decides), values the backed-up value of every
\* candidate and top the candidates the final choice is made among.
\* ------------------------------------------------------------------------
RuntimeErrorOut(st) ==
    [kind |-> "RuntimeError", moves |-> {}, st |-> st, values |-> <<>>,
     top |-> <<>>]

select_random_move(size, moves, st) ==
    LET empty_cells == remaining_moves_logical(moves, size)
    IN  IF empty_cells = <<>> THEN RuntimeErrorOut(st)
        ELSE [kind |-> "move", moves |-> SeqToSet(empty_cells), st |-> st,
              values |-> <<>>, top |-> <<>>]

\* The root loop appending every candidate that is not worse, without
\* starting the list again at a better one.
KeepBestAppend(acc, pos, child) ==
    [st |-> [child.st EXCEPT !.map = SetCell(@, pos[1], pos[2], UNDERSCORE)],
     best_score |-> IF child.val > acc.best_score THEN child.val
                    ELSE acc.best_score,
     best_moves |-> IF child.val >= acc.best_score
                    THEN Append(acc.best_moves, pos)
                    ELSE acc.best_moves,
     values |-> Append(acc.values, child.val),
     stop |-> FALSE]

\* if score > best_score: ... elif score == best_score: ...
KeepBest(acc, pos, child) ==
    [st |-> [child.st EXCEPT !.map = SetCell(@, pos[1], pos[2], UNDERSCORE)],
     best_score |-> IF child.val > acc.best_score THEN child.val
                    ELSE acc.best_score,
     best_moves |-> IF child.val > acc.best_score THEN <<pos>>
                    ELSE IF child.val = acc.best_score
                    THEN Append(acc.best_moves, pos)
                    ELSE acc.best_moves,
     values |-> Append(acc.values, child.val),
     stop |-> FALSE]

\* for r, c in candidates: ... of _evaluate_all_moves_minimax, iteration i
root_step_medium(size, combos, acc, depth, cands, i) ==
    KeepBest(acc, cands[i],
        min_max_medium(size, combos,
            [acc.st EXCEPT !.map = SetCell(@, cands[i][1], cands[i][2],
                                     AI_MARK)],
            0, FALSE, depth))

RECURSIVE RootLoopMedium(_, _, _, _, _, _)
RootLoopMedium(size, combos, acc, depth, cands, i) ==
    IF acc.stop \/ i > Len(cands) THEN acc
    ELSE RootLoopMedium(size, combos,
             root_step_medium(size, combos, acc, depth, cands, i),
             depth, cands, i + 1)

\* return choice(best_moves)
choice_of_best(loop) ==
    [kind |-> "move", moves |-> SeqToSet(loop.best_moves), st |-> loop.st,
     values |-> loop.values, top |-> loop.best_moves]

evaluate_all_moves_minimax(size, combos, st, candidates, depth) ==
    IF depth = NoDepth
    THEN \* min_max_medium raises TypeError under the first candidate
         [kind |-> "TypeError", moves |-> {},
          st |-> [st EXCEPT !.map = SetCell(@, candidates[1][1],
                                      candidates[1][2], AI_MARK)],
          values |-> <<>>, top |-> <<>>]
    ELSE choice_of_best(RootLoopMedium(size, combos,
             [st |-> st, best_score |-> -INF, best_moves |-> <<>>,
              values |-> <<>>, stop |-> FALSE],
             depth, candidates, 1))

\* error: the outcome of _introduce_random_error
select_medium_move(size, combos, moves, lv, error, st) ==
    LET empty_cells == remaining_moves_logical(moves, size)
    IN  IF empty_cells = <<>> THEN RuntimeErrorOut(st)
        ELSE IF should_skip_minimax_opening(size, empty_cells)
        THEN select_random_move(size, moves, st)
        ELSE IF error
        THEN select_random_move(size, moves, st)
        ELSE evaluate_all_moves_minimax(size, combos, st, empty_cells,
                                        AIConfigDepth(lv))

\* for row, col in candidates: ... of select_hard_move, iteration i
root_step_hard(size, combos, acc, cands, i) ==
    KeepBest(acc, cands[i],
        min_max_hard(size, combos,
            [acc.st EXCEPT !.map = SetCell(@, cands[i][1], cands[i][2],
                                     AI_MARK)],
            0, FALSE, -INF, INF))

RECURSIVE RootLoopHard(_, _, _, _, _)
RootLoopHard(size, combos, acc, cands, i) ==
    IF acc.stop \/ i > Len(cands) THEN acc
    ELSE RootLoopHard(size, combos,
             root_step_hard(size, combos, acc, cands, i), cands, i + 1)

\* return choice(best_moves) if best_moves else self.select_random_move()
choice_or_random(size, moves, loop) ==
    IF loop.best_moves # <<>> THEN choice_of_best(loop)
    ELSE [select_random_move(size, moves, loop.st) EXCEPT
             !.values = loop.values]

select_hard_move(size, combos, moves, st) ==
    IF remaining_moves_logical(moves, size) = <<>> THEN RuntimeErrorOut(st)
    ELSE choice_or_random(size, moves,
             RootLoopHard(size, combos,
                 [st |-> st, best_score |-> -INF, best_moves |-> <<>>,
                  values |-> <<>>, stop |-> FALSE],
                 remaining_moves_logical(moves, size), 1))

\* ------------------------------------------------------------------------
\* ai_player.py: VERY_HARD level
\* ------------------------------------------------------------------------
\* registry[key] = (value, row, col): a dict keeps the position of a key
\* that is assigned again.
RegistryPut(reg, e) ==
    IF \E j \in 1..Len(reg) : reg[j].key = e.key
    THEN [j \in 1..Len(reg) |-> IF reg[j].key = e.key THEN e ELSE reg[j]]
    ELSE Append(reg, e)

\* if value >= best_value: ... ; the mark is taken back afterwards
KeepRegistry(acc, pos, child) ==
    [st |-> [child.st EXCEPT !.map = SetCell(@, pos[1], pos[2], UNDERSCORE)],
     best_value |-> IF child.val >= acc.best_value THEN child.val
                    ELSE acc.best_value,
     registry |-> IF child.val >= acc.best_value
                  THEN RegistryPut(acc.registry,
                           [key |-> board_to_str(child.st.map),
                            val |-> child.val, row |-> pos[1],
                            col |-> pos[2]])
                  ELSE acc.registry,
     values |-> Append(acc.values, child.val),
     stop |-> FALSE]

\* for row, col in candidates: ... of select_very_hard_move, iteration i
root_step_very_hard(size, combos, budget, acc, cands, i) ==
    KeepRegistry(acc, cands[i],
        min_max_very_hard(size, combos, budget,
            [acc.st EXCEPT !.map = SetCell(@, cands[i][1], cands[i][2],
                                     AI_MARK)],
            0, FALSE, -INF, INF))

RECURSIVE RootLoopVeryHard(_, _, _, _, _, _)
RootLoopVeryHard(size, combos, budget, acc, cands, i) ==
    IF acc.stop \/ i > Len(cands) THEN acc
    ELSE RootLoopVeryHard(size, combos, budget,
             root_step_very_hard(size, combos, budget, acc, cands, i),
             cands, i + 1)

\* [... for board_str, (val, row, col) in registry.items()
\*      if val == best_value]
TopMoves(registry, best_value) ==
    SelectSeq(registry, LAMBDA entry : entry.val = best_value)

\* for board_str, _, row, col in top_moves: if score > best_score: ...
\* keeps the first of the moves whose score is the highest
TieBreak(size, combos, mapping, top_moves) ==
    LET scores == List([i \in 1..Len(top_moves) |->
                      evaluate_ai_score(TRUE,
                          str_to_board(top_moves[i].key, size),
                          size, combos, mapping)])
        firsts == {i \in 1..Len(top_moves) :
                      /\ scores[i] > -INF
                      /\ \A j \in 1..Len(top_moves) :
                            \/ scores[j] < scores[i]
                            \/ scores[j] = scores[i] /\ i <= j}
    IN  IF firsts = {} THEN <<-1, -1>>
        ELSE LET i == CHOOSE i \in firsts : TRUE
             IN  <<top_moves[i].row, top_moves[i].col>>

\* select_very_hard_move from the choice of the top moves on
best_of_registry(size, combos, loop) ==
    LET top_moves == TopMoves(loop.registry, loop.best_value)
    IN  [st |-> loop.st, kind |-> "move",
         moves |-> {IF Len(top_moves) = 1
                    THEN <<top_moves[1].row, top_moves[1].col>>
                    ELSE TieBreak(size, combos, loop.st.map, top_moves)},
         values |-> loop.values,
         top |-> [j \in 1..Len(top_moves) |->
                     <<top_moves[j].row, top_moves[j].col>>]]

\* budget: the number of clock readings after which the time is exceeded
select_very_hard_move(size, combos, moves, budget, st) ==
    best_of_registry(size, combos,
        RootLoopVeryHard(size, combos, budget,
            [st |-> [st EXCEPT !.n = 0], best_value |-> -INF,
             registry |-> <<>>, values |-> <<>>, stop |-> FALSE],
            remaining_moves_logical(moves, size), 1))

\* ------------------------------------------------------------------------
\* logic_game.py: what the game logic does to the two boards
\* ------------------------------------------------------------------------
\* _init_game: empty Move objects; the symbol board starts as EMPTY cells
InitMoves(size) ==
    [r \in 1..size |-> [c \in 1..size |->
        [row |-> r - 1, col |-> c - 1, animal |-> EMPTY]]]

\* _calculate_winning_combos
calculate_winning_combos(moves, size) ==
    LET rows == [r \in 1..size |-> [c \in 1..size |->
                    <<moves[r][c].row, moves[r][c].col>>]]
        columns == [c \in 1..size |-> [r \in 1..size |-> rows[r][c]]]
        first_diag == [i \in 1..size |-> rows[i][i]]
        second_diag == [i \in 1..size |-> rows[i][size - i + 1]]
    IN  rows \o columns \o <<first_diag, second_diag>>

\* _is_machine_symbol
is_machine_symbol(move) == move.animal = MACHINE_ANIMAL

\* _update_board_mapping: the symbol board is rebuilt from the detailed one
update_board_mapping(moves, size) ==
    [r \in 1..size |-> [c \in 1..size |->
        IF moves[r][c].animal = EMPTY THEN UNDERSCORE
        ELSE IF is_machine_symbol(moves[r][c]) THEN AI_MARK
        ELSE PLAYER_MARK]]

\* The detailed board a test builds next to a symbol board.
MovesOf(map, size) ==
    [r \in 1..size |-> [c \in 1..size |->
        [row |-> r - 1, col |-> c - 1,
         animal |-> IF map[r][c] = AI_MARK THEN MACHINE_ANIMAL
                    ELSE IF map[r][c] = PLAYER_MARK THEN HUMAN_ANIMAL
                    ELSE EMPTY]]]

\* ------------------------------------------------------------------------
\* Boards the engine is constructed on
\* ------------------------------------------------------------------------
U == UNDERSCORE
O == AI_MARK
X == PLAYER_MARK

\* test_select_hard_move_blocks_win: the rival on (0,0) and (1,1)
BlockBoard == << <<X, U, U>>, <<U, X, U>>, <<U, U, U>> >>

\* Two marks that leave several root candidates with the same value.
TieBoard == << <<U, X, U>>, <<U, U, U>>, <<O, U, U>> >>

\* A drawn game: no cell is empty and no line is complete.
FullBoard3 == << <<X, O, X>>, <<O, X, O>>, <<O, X, O>> >>

FullBoard4 ==
    << <<X, O, X, O>>, <<O, X, O, X>>, <<O, X, O, X>>, <<X, O, X, O>> >>

LateBoard4 ==
    << <<X, O, X, O>>, <<O, X, O, X>>, <<O, X, U, U>>, <<X, O, U, U>> >>

SeedBoards3 == {BlockBoard, TieBoard, FullBoard3}

SeedBoards4 == {FullBoard4, LateBoard4}

SeedBoards(size) == IF size = 3 THEN SeedBoards3 ELSE SeedBoards4

Sizes == {3, 4}

Tiers == {"EASY", "MEDIUM", "HARD", "VERY_HARD"}

Budgets == (0..MaxBudget) \cup {NoTimeout}

EmptyCache == [k \in {} |-> 0]

NoMove == <<-9, -9>>

NoResult ==
    [op |-> "none", kind |-> "none", move |-> NoMove, score |-> 0,
     values |-> <<>>, top |-> <<>>, budget |-> 0, cold |-> TRUE,
     hits |-> 0, cuts |-> 0, outs |-> 0, n |-> 0, deep |-> 0]

EmptyCount(map, size) == Len(remaining_moves_mapping(map, size))

\* ------------------------------------------------------------------------
\* State machine
\* ------------------------------------------------------------------------
\* AIPlayer.__init__ on a board built as the tests build it
Init ==
    /\ size_board \in Sizes
    /\ mapping_moves \in SeedBoards(size_board)
    /\ current_moves = MovesOf(mapping_moves, size_board)
    /\ winning_combos = calculate_winning_combos(current_moves, size_board)
    /\ level \in Tiers
    /\ cache = EmptyCache
    /\ winner_exists = FALSE
    /\ predict_tie = FALSE
    /\ moves_made = 0
    /\ result = NoResult

St0 == [map |-> mapping_moves, cache |-> cache, n |-> 0, hits |-> 0,
        cuts |-> 0, outs |-> 0, loops |-> 0, stores |-> 0, deep |-> 0]

\* The engine returns: the boards it holds are the ones it searched on.
Return(op, out, m, budget) ==
    /\ mapping_moves' = out.st.map
    /\ cache' = out.st.cache
    /\ result' = [op |-> op, kind |-> out.kind, move |-> m, score |-> 0,
                  values |-> out.values, top |-> out.top,
                  budget |-> budget, cold |-> (cache = EmptyCache),
                  hits |-> out.st.hits, cuts |-> out.st.cuts,
                  outs |-> out.st.outs, n |-> out.st.n,
                  deep |-> out.st.deep]
    /\ UNCHANGED <<size_board, current_moves, winning_combos, level,
                   winner_exists, predict_tie, moves_made>>

Choices(out) == IF out.kind = "move" THEN out.moves ELSE {NoMove}

Searchable == EmptyCount(mapping_moves, size_board) <= MaxSearchCells

\* select_random_move, called on an engine set to EASY
SelectRandomMove ==
    /\ level = "EASY"
    /\ \E out \in {select_random_move(size_board, current_moves, St0)} :
         \E m \in Choices(out) : Return("random", out, m, 0)

\* select_medium_move, called on an engine set to MEDIUM
SelectMediumMove ==
    /\ level = "MEDIUM"
    /\ \E error \in BOOLEAN :
         /\ error \/ Searchable
              \/ should_skip_minimax_opening(size_board,
                     remaining_moves_logical(current_moves, size_board))
         /\ \E out \in {select_medium_move(size_board, winning_combos,
                                             current_moves, level, error,
                                             St0)} :
              \E m \in Choices(out) :
                Return(IF error THEN "medium_error" ELSE "medium",
                       out, m, 0)

\* select_hard_move, called on an engine set to HARD
SelectHardMove ==
    /\ level = "HARD"
    /\ Searchable
    /\ \E out \in {select_hard_move(size_board, winning_combos,
                                     current_moves, St0)} :
         \E m \in Choices(out) : Return("hard", out, m, 0)

\* select_very_hard_move, called on an engine set to VERY_HARD
SelectVeryHardMove ==
    /\ level = "VERY_HARD"
    /\ \E budget \in Budgets :
         /\ budget = NoTimeout => Searchable
         /\ \E out \in {select_very_hard_move(size_board, winning_combos,
                                                current_moves, budget,
                                                St0)} :
              \E m \in Choices(out) : Return("very_hard", out, m, budget)

\* The levels a caller can pass: the members of the Difficulty enumeration,
\* which are the four tiers and EMPTY, and a value that is no member of it
\* (IMPOSSIBLE, a member of another enumeration).
LevelValues == Tiers \cup {"EMPTY", "IMPOSSIBLE"}

\* method_map[level](): the select method of the tier, run on the cache the
\* level setter has just cleared.
method_map(lv, size, combos, moves, budget, st) ==
    CASE lv = "EASY" -> select_random_move(size, moves, st)
      [] lv = "MEDIUM" -> select_medium_move(size, combos, moves, lv, FALSE, st)
      [] lv = "HARD" -> select_hard_move(size, combos, moves, st)
      [] lv = "VERY_HARD" -> select_very_hard_move(size, combos, moves, budget, st)

\* the level setter with self.cache.clear() left out
cache_clear_skipped(st) == st

\* self.cache.clear() of the level setter, on the state the search starts in
cache_clear(st) == [st EXCEPT !.cache = EmptyCache]

\* What get_ai_move_by_level(lv) leaves behind: the error it raised or the
\* move it returned, and the counters of the search that ended in state st.
LevelResult(lv, kind, msg, m, budget, st) ==
    [NoResult EXCEPT !.op = "get_ai_move_by_level", !.kind = kind,
                     !.move = m, !.budget = budget, !.n = st.n,
                     !.hits = st.hits, !.cuts = st.cuts, !.outs = st.outs,
                     !.deep = st.deep,
                     !.cold = (cache = EmptyCache)]
      @@ [lv |-> lv, msg |-> msg]

\* get_ai_move_by_level(level): the level setter, then the tier's method; a
\* KeyError of the method map becomes a RuntimeError, any other error passes.
GetAiMoveByLevel ==
    \E lv \in LevelValues :
      IF lv \notin Tiers \cup {"EMPTY"}
      THEN /\ result' = LevelResult(lv, "ValueError",
                            "level must be a Difficulty instance.",
                            NoMove, 0, St0)
           /\ UNCHANGED <<size_board, current_moves, mapping_moves,
                          winning_combos, level, cache, winner_exists,
                          predict_tie, moves_made>>
      ELSE IF lv \notin Tiers
      THEN /\ level' = lv
           /\ cache' = EmptyCache
           /\ result' = LevelResult(lv, "RuntimeError",
                            "Unsupported AI difficulty level", NoMove, 0,
                            St0)
           /\ UNCHANGED <<size_board, current_moves, mapping_moves,
                          winning_combos, winner_exists, predict_tie,
                          moves_made>>
      ELSE /\ level' = lv
           /\ lv \in {"MEDIUM", "HARD"} =>
                \/ Searchable
                \/ /\ lv = "MEDIUM"
                   /\ should_skip_minimax_opening(size_board,
                          remaining_moves_logical(current_moves, size_board))
           /\ \E budget \in IF lv = "VERY_HARD" THEN Budgets ELSE {0} :
                /\ (lv = "VERY_HARD" /\ budget = NoTimeout) => Searchable
                /\ \E out \in {method_map(lv, size_board, winning_combos,
                                           current_moves, budget,
                                           cache_clear(St0))} :
                     \E m \in Choices(out) :
                       /\ mapping_moves' = out.st.map
                       /\ cache' = out.st.cache
                       /\ result' = LevelResult(lv, out.kind, "", m, budget,
                                                out.st)
           /\ UNCHANGED <<size_board, current_moves, winning_combos,
                          winner_exists, predict_tie, moves_made>>

\* evaluate_ai_score(boost) on the engine's own board
EvaluateAiScore ==
    \E boost \in BOOLEAN :
      /\ result' = [NoResult EXCEPT
             !.op = IF boost THEN "evaluate_boost" ELSE "evaluate",
             !.kind = "score",
             !.score = evaluate_ai_score(boost, mapping_moves, size_board,
                                         winning_combos, mapping_moves),
             !.cold = (cache = EmptyCache)]
      /\ UNCHANGED <<size_board, current_moves, mapping_moves,
                     winning_combos, level, cache, winner_exists,
                     predict_tie, moves_made>>

\* level.setter
SetLevel ==
    \E value \in Tiers :
      /\ level' = value
      /\ cache' = EmptyCache
      /\ result' = [NoResult EXCEPT !.op = "set_level", !.kind = "ok",
                                    !.cold = (cache = EmptyCache)]
      /\ UNCHANGED <<size_board, current_moves, mapping_moves,
                     winning_combos, winner_exists, predict_tie, moves_made>>

\* set_current_state without self.cache.clear()
set_current_state_keep(size, moves, mapping, combos) ==
    /\ size_board' = size
    /\ current_moves' = moves
    /\ mapping_moves' = mapping
    /\ winning_combos' = combos
    /\ cache' = cache

\* set_current_state: the engine takes the boards and clears its cache
set_current_state(size, moves, mapping, combos) ==
    /\ size_board' = size
    /\ current_moves' = moves
    /\ mapping_moves' = mapping
    /\ winning_combos' = combos
    /\ cache' = EmptyCache

\* _update_board_mapping followed by _update_ai_player
UpdateBoardMapping ==
    /\ set_current_state(size_board, current_moves,
                         update_board_mapping(current_moves, size_board),
                         winning_combos)
    /\ result' = [NoResult EXCEPT !.op = "update_board_mapping",
                                  !.kind = "ok",
                                  !.cold = (cache = EmptyCache)]
    /\ UNCHANGED <<level, winner_exists, predict_tie, moves_made>>

\* reset_game / change_board_size of the GUI: _init_game,
\* _calculate_winning_combos, reset_flags, _update_board_mapping
ResetGame ==
    \E size \in Sizes :
      LET moves == InitMoves(size)
      IN  /\ set_current_state(size, moves,
                               update_board_mapping(moves, size),
                               calculate_winning_combos(moves, size))
          /\ winner_exists' = FALSE
          /\ predict_tie' = FALSE
          /\ moves_made' = 0
          /\ result' = [NoResult EXCEPT !.op = "reset_game", !.kind = "ok",
                                        !.cold = (cache = EmptyCache)]
          /\ UNCHANGED level

\* _is_combo_blocked
is_combo_blocked(win_comb) ==
    LET unique == {win_comb[i] : i \in 1..Len(win_comb)}
    IN  Cardinality(unique) = 3
        \/ (Cardinality(unique) = 2 /\ UNDERSCORE \notin unique)

\* the test of _check_winner
check_winner(win_comb) ==
    LET unique == {win_comb[i] : i \in 1..Len(win_comb)}
    IN  Cardinality(unique) = 1 /\ EMPTY \notin unique
        /\ UNDERSCORE \notin unique

RECURSIVE CheckTieFrom(_, _, _, _, _, _)
\* _check_and_predict_tie: returns the two flags
CheckTieFrom(i, blocked, map, combos, winner, tie) ==
    IF i > Len(combos)
    THEN [winner |-> winner, tie |-> (blocked = Len(combos))]
    ELSE LET win_comb == ComboValues(map, combos[i])
         IN  IF check_winner(win_comb)
             THEN [winner |-> TRUE, tie |-> tie]
             ELSE CheckTieFrom(i + 1,
                      IF is_combo_blocked(win_comb) THEN blocked + 1
                      ELSE blocked,
                      map, combos, winner, tie)

check_and_predict_tie(map, combos, winner, tie) ==
    CheckTieFrom(1, 0, map, combos, winner, tie)

\* _is_valid_movement without the test of the predicted tie
is_valid_movement_no_tie(r, c) ==
    /\ Cell(current_moves, r, c).animal = EMPTY
    /\ ~winner_exists

\* _is_valid_movement
is_valid_movement(r, c) ==
    /\ Cell(current_moves, r, c).animal = EMPTY
    /\ ~winner_exists
    /\ ~predict_tie

\* The cells the players click on.
MoveCells == {<<2, 2>>}

\* _process_move(Move(row, col, animal)) with pos = (row, col), in a game of
\* at most limit accepted moves
process_move(pos, animal, limit) ==
      LET r == pos[1]
          c == pos[2]
      IN
      IF ~is_valid_movement(r, c)
      THEN /\ result' = [NoResult EXCEPT !.op = "process_move",
                                         !.kind = "InvalidMoveError",
                                         !.move = <<r, c>>,
                                         !.cold = (cache = EmptyCache)]
           /\ UNCHANGED <<size_board, current_moves, mapping_moves,
                          winning_combos, level, cache, winner_exists,
                          predict_tie, moves_made>>
      ELSE /\ moves_made < limit
           /\ LET moves == SetCell(current_moves, r, c,
                               [row |-> r, col |-> c, animal |-> animal])
                  mapping == update_board_mapping(moves, size_board)
                  flags == check_and_predict_tie(mapping, winning_combos,
                                                 winner_exists, predict_tie)
              IN  /\ set_current_state(size_board, moves, mapping,
                                       winning_combos)
                  /\ winner_exists' = flags.winner
                  /\ predict_tie' = flags.tie
           /\ moves_made' = moves_made + 1
           /\ result' = [NoResult EXCEPT !.op = "process_move",
                                         !.kind = "ok", !.move = <<r, c>>,
                                         !.cold = (cache = EmptyCache)]
           /\ UNCHANGED level

\* _process_move with a move of the machine or of the human on (r, c)
ProcessMove ==
    \E pos \in MoveCells, animal \in {MACHINE_ANIMAL, HUMAN_ANIMAL} :
      process_move(pos, animal, MaxMoves)

Next ==
    \/ SelectRandomMove
    \/ SelectMediumMove
    \/ SelectHardMove
    \/ SelectVeryHardMove
    \/ SetLevel
    \/ UpdateBoardMapping
    \/ ResetGame
    \/ ProcessMove

Spec == Init /\ [][Next]_vars

\* The game logic asking the engine for a move at a level of its choice.
NextLevel ==
    \/ GetAiMoveByLevel
    \/ SetLevel
    \/ ProcessMove
    \/ ResetGame

SpecLevel == Init /\ [][NextLevel]_vars

\* ------------------------------------------------------------------------
\* The evaluator on its own: an engine built on any 3x3 board, or on a 4x4
\* board put together from the rows of EvalRows4, or on such a 4x4 board
\* with the two marks exchanged, scores its board.
\* ------------------------------------------------------------------------
EvalRows4 ==
    { <<X, X, X, X>>, <<O, O, O, O>>, <<U, U, U, U>>, <<X, O, U, X>>,
      <<X, U, U, U>>, <<U, X, U, U>>, <<U, U, X, U>>, <<U, U, U, X>> }

Exchanged(map) ==
    [r \in DOMAIN map |-> [c \in DOMAIN map[r] |->
        IF map[r][c] = X THEN O ELSE IF map[r][c] = O THEN X ELSE U]]

EvalBoards(size) ==
    IF size = 3 THEN [1..3 -> [1..3 -> Marks]]
    ELSE [1..4 -> EvalRows4]
         \cup {Exchanged(map) : map \in [1..4 -> EvalRows4]}

InitEval ==
    /\ size_board \in Sizes
    /\ mapping_moves \in EvalBoards(size_board)
    /\ current_moves = MovesOf(mapping_moves, size_board)
    /\ winning_combos = calculate_winning_combos(current_moves, size_board)
    /\ level = "EASY"
    /\ cache = EmptyCache
    /\ winner_exists = FALSE
    /\ predict_tie = FALSE
    /\ moves_made = 0
    /\ result = NoResult

NextEval == EvaluateAiScore

SpecEval == InitEval /\ [][NextEval]_vars

\* ------------------------------------------------------------------------
\* Games: moves of either player on any cell of a board that is one move
\* from a line or from a predicted tie.
\* ------------------------------------------------------------------------
\* The most moves accepted in a game.
MaxPlayMoves == 2

\* After the human's move on (2,1) every line holds both marks while (2,2)
\* is still empty.
NearTieBoard == << <<X, O, X>>, <<X, O, O>>, <<O, U, U>> >>

InitGame ==
    /\ size_board \in Sizes
    /\ mapping_moves \in IF size_board = 3 THEN {BlockBoard, NearTieBoard}
                          ELSE {LateBoard4}
    /\ current_moves = MovesOf(mapping_moves, size_board)
    /\ winning_combos = calculate_winning_combos(current_moves, size_board)
    /\ level \in Tiers
    /\ cache = EmptyCache
    /\ winner_exists = FALSE
    /\ predict_tie = FALSE
    /\ moves_made = 0
    /\ result = NoResult

\* _process_move with a move of the machine or of the human on any cell
PlayMove ==
    \E pos \in SeqToSet(AllCoords(size_board)),
       animal \in {MACHINE_ANIMAL, HUMAN_ANIMAL} :
      process_move(pos, animal, MaxPlayMoves)

NextGame ==
    \/ PlayMove
    \/ ResetGame

SpecGame == InitGame /\ [][NextGame]_vars

\* ------------------------------------------------------------------------
\* Openings: the MEDIUM engine on boards of 3, 4 and 5 cells a side with a
\* few marks on them, where the opening rule of the 4x4 board decides.
\* ------------------------------------------------------------------------
\* The most marks on a board the engine opens on.
MaxOpenMarks == 5

\* The most empty cells the exhaustive search of select_medium_move is run on.
MaxOpenCells == 12

\* The board whose first k cells in reading order hold the marks of the two
\* players in turn, the human first.
Opening(size, k) ==
    [r \in 1..size |-> [c \in 1..size |->
        IF (r - 1) * size + c > k THEN UNDERSCORE
        ELSE IF ((r - 1) * size + c) % 2 = 1 THEN PLAYER_MARK
        ELSE AI_MARK]]

InitOpen ==
    /\ size_board \in Sizes \cup {5}
    /\ \E k \in 0..MaxOpenMarks : mapping_moves = Opening(size_board, k)
    /\ current_moves = MovesOf(mapping_moves, size_board)
    /\ winning_combos = calculate_winning_combos(current_moves, size_board)
    /\ level = "MEDIUM"
    /\ cache = EmptyCache
    /\ winner_exists = FALSE
    /\ predict_tie = FALSE
    /\ moves_made = 0
    /\ result = NoResult

\* _should_skip_minimax_opening(empty_cells) on the cells select_medium_move
\* hands it, called once on a newly built engine
ShouldSkipMinimaxOpening ==
    /\ result.op = "none"
    /\ result' = [NoResult EXCEPT
                    !.op = "should_skip_minimax_opening",
                    !.kind = IF should_skip_minimax_opening(size_board,
                                   remaining_moves_logical(current_moves,
                                                           size_board))
                             THEN "True" ELSE "False"]
    /\ UNCHANGED <<size_board, current_moves, mapping_moves, winning_combos,
                   level, cache, winner_exists, predict_tie, moves_made>>

\* select_medium_move on an opening board, called once on a newly built
\* engine
SelectMediumOpening ==
    \E error \in BOOLEAN :
      /\ result.op = "none"
      /\ \/ error
         \/ EmptyCount(mapping_moves, size_board) <= MaxOpenCells
         \/ should_skip_minimax_opening(size_board,
                remaining_moves_logical(current_moves, size_board))
      /\ \E out \in {select_medium_move(size_board, winning_combos,
                                          current_moves, level, error,
                                          St0)} :
           \E m \in Choices(out) :
             Return(IF error THEN "medium_error" ELSE "medium", out, m, 0)

\* remaining_moves.sort(key=move_priority, reverse=True) of _minimax_core on
\* the board of a newly built engine: values is the order in which the node
\* explores its children
SortRemainingMoves ==
    /\ result.op = "none"
    /\ result' = [NoResult EXCEPT
                    !.op = "sort_remaining_moves", !.kind = "list",
                    !.values = SortByPriority(
                                   remaining_moves_mapping(mapping_moves,
                                                           size_board),
                                   size_board)]
    /\ UNCHANGED <<size_board, current_moves, mapping_moves, winning_combos,
                   level, cache, winner_exists, predict_tie, moves_made>>

\* calculate_boost_score(values, combo, size_board, board) as _apply_boost
\* calls it for one line of the board of a newly built engine: values is the
\* line, score the result in hundredths
CalculateBoostScore ==
    /\ result.op = "none"
    /\ \E i \in 1..Len(winning_combos) :
         result' = [NoResult EXCEPT
                      !.op = "calculate_boost_score", !.kind = "score",
                      !.values = winning_combos[i],
                      !.score = calculate_boost_score(
                                    ComboValues(mapping_moves,
                                                winning_combos[i]),
                                    winning_combos[i], size_board,
                                    mapping_moves)]
    /\ UNCHANGED <<size_board, current_moves, mapping_moves, winning_combos,
                   level, cache, winner_exists, predict_tie, moves_made>>

\* evaluate_ai_score(boost=True, map=board) as the tie-break of
\* select_very_hard_move calls it: board is a copy of the engine's board with
\* Self's mark on the empty cell pos, the engine's own board stays as it is
EvaluateAiScoreOfMap ==
    /\ result.op = "none"
    /\ \E pos \in SeqToSet(remaining_moves_mapping(mapping_moves,
                                                    size_board)) :
         result' = [NoResult EXCEPT
                      !.op = "evaluate_boost_map", !.kind = "score",
                      !.move = pos,
                      !.score = evaluate_ai_score(TRUE,
                                    SetCell(mapping_moves, pos[1], pos[2],
                                            AI_MARK),
                                    size_board, winning_combos,
                                    mapping_moves)]
    /\ UNCHANGED <<size_board, current_moves, mapping_moves, winning_combos,
                   level, cache, winner_exists, predict_tie, moves_made>>

NextOpen ==
    \/ ShouldSkipMinimaxOpening
    \/ SelectMediumOpening
    \/ SortRemainingMoves
    \/ CalculateBoostScore
    \/ EvaluateAiScoreOfMap

SpecOpen == InitOpen /\ [][NextOpen]_vars

\* ------------------------------------------------------------------------
\* The search entry points called directly, with arguments of any Python
\* type.  A Python value is [type, v]: v is the number an int or a bool
\* stands for and 0 for a value of another type.
\* ------------------------------------------------------------------------
PyInt(v) == [type |-> "int", v |-> v]

PyBool(b) == [type |-> "bool", v |-> IF b THEN 1 ELSE 0]

\* isinstance(x, int): a bool is an int
isinstance_int(x) == x.type \in {"int", "bool"}

\* isinstance(x, bool)
isinstance_bool(x) == x.type = "bool"

TypeErrorOut(st) == [kind |-> "TypeError", val |-> 0, st |-> st]

ValueOut(out) == [kind |-> "value", val |-> out.val, st |-> out.st]

\* min_max_medium that searches whatever the type of turn_max: a value
\* other than 0 counts as true
min_max_medium_unchecked(size, combos, st, depth, turn_max, max_depth) ==
    IF ~isinstance_int(depth) THEN TypeErrorOut(st)
    ELSE ValueOut(min_max_medium(size, combos, st, depth.v, turn_max.v # 0,
                                 max_depth))

\* min_max_medium from its type check on
min_max_medium_call(size, combos, st, depth, turn_max, max_depth) ==
    IF ~isinstance_int(depth) \/ ~isinstance_bool(turn_max)
    THEN TypeErrorOut(st)
    ELSE ValueOut(min_max_medium(size, combos, st, depth.v, turn_max.v = 1,
                                 max_depth))

\* min_max_hard from its type check on
min_max_hard_call(size, combos, st, depth, turn_max, alpha, beta) ==
    IF ~isinstance_int(depth) \/ ~isinstance_bool(turn_max)
    THEN TypeErrorOut(st)
    ELSE ValueOut(min_max_hard(size, combos, st, depth.v, turn_max.v = 1,
                               alpha, beta))

\* min_max_very_hard from its type check on
min_max_very_hard_call(size, combos, budget, st, depth, turn_max, alpha, beta) ==
    IF ~isinstance_int(depth) \/ ~isinstance_bool(turn_max)
    THEN TypeErrorOut(st)
    ELSE ValueOut(min_max_very_hard(size, combos, budget, st, depth.v,
                                    turn_max.v = 1, alpha, beta))

\* Boards the entry points are called on: Self's row complete, the
\* rival's row complete, a full board without a line, and a board with
\* five empty cells.
SelfLineBoard == << <<O, O, O>>, <<X, X, U>>, <<U, U, X>> >>

RivalLineBoard == << <<X, X, X>>, <<O, O, U>>, <<U, U, O>> >>

DrawBoard == << <<X, O, X>>, <<X, O, O>>, <<O, X, X>> >>

MidBoard == << <<X, O, U>>, <<U, X, U>>, <<U, U, O>> >>

CallBoards(size) ==
    IF size = 3
    THEN {MidBoard, SelfLineBoard, RivalLineBoard, DrawBoard}
    ELSE {LateBoard4, FullBoard4}

CallDepths ==
    {PyInt(0), PyInt(2), PyInt(4), PyBool(TRUE), [type |-> "str", v |-> 0]}

CallTurns ==
    {PyBool(TRUE), PyBool(FALSE), PyInt(1), [type |-> "NoneType", v |-> 0]}

\* The clock readings after which the time can be exceeded.
MaxCallBudget == 2

CallBudgets == (0..MaxCallBudget) \cup {NoTimeout}

InitCall ==
    /\ size_board \in Sizes
    /\ mapping_moves \in CallBoards(size_board)
    /\ current_moves = MovesOf(mapping_moves, size_board)
    /\ winning_combos = calculate_winning_combos(current_moves, size_board)
    /\ level = "EASY"
    /\ cache = EmptyCache
    /\ winner_exists = FALSE
    /\ predict_tie = FALSE
    /\ moves_made = 0
    /\ result = NoResult

\* The entry point returns or raises: the engine keeps the board and the
\* cache the call left.
CallReturn(op, out, depth, turn_max, budget) ==
    /\ mapping_moves' = out.st.map
    /\ cache' = out.st.cache
    /\ result' = [op |-> op, kind |-> out.kind, score |-> out.val,
                  depth |-> depth, turn_max |-> turn_max,
                  budget |-> budget, cold |-> (cache = EmptyCache),
                  hits |-> out.st.hits, cuts |-> out.st.cuts,
                  outs |-> out.st.outs, n |-> out.st.n,
                  loops |-> out.st.loops, stores |-> out.st.stores]
    /\ UNCHANGED <<size_board, current_moves, winning_combos, level,
                   winner_exists, predict_tie, moves_made>>

\* A call is made on a new engine or on the cache that one call has
\* filled.
CallAllowed ==
    result.op = "none" \/ (result.cold /\ cache # EmptyCache)

\* min_max_medium(depth, turn_max, max_depth) with the MEDIUM depth
MinMaxMedium ==
    /\ CallAllowed
    /\ \E depth \in CallDepths, turn_max \in CallTurns :
         \E out \in {min_max_medium_call(size_board, winning_combos, St0,
                          depth, turn_max, AIConfigDepth("MEDIUM"))} :
           CallReturn("min_max_medium", out, depth, turn_max, NoTimeout)

\* min_max_hard(depth, turn_max, alpha, beta)
MinMaxHard ==
    /\ CallAllowed
    /\ \E depth \in CallDepths, turn_max \in CallTurns :
         \E out \in {min_max_hard_call(size_board, winning_combos, St0,
                          depth, turn_max, -INF, INF)} :
           CallReturn("min_max_hard", out, depth, turn_max, NoTimeout)

\* min_max_very_hard(depth, turn_max, alpha, beta), the clock started by
\* the caller
MinMaxVeryHard ==
    /\ CallAllowed
    /\ \E depth \in CallDepths, turn_max \in CallTurns,
          budget \in CallBudgets :
         \E out \in {min_max_very_hard_call(size_board, winning_combos,
                          budget, St0, depth, turn_max, -INF, INF)} :
           CallReturn("min_max_very_hard", out, depth, turn_max, budget)

NextCall ==
    \/ MinMaxMedium
    \/ MinMaxHard
    \/ MinMaxVeryHard

SpecCall == InitCall /\ [][NextCall]_vars

\* ------------------------------------------------------------------------
\* Serialization on its own: board_to_str, str_to_board and _get_cache_key
\* on every 3x3 board, on the 4x4 boards put together from the rows of
\* EvalRows4, and on boards with a row or a cell too few or too many.
\* ------------------------------------------------------------------------
\* Boards whose number of cells is not size * size.
MalformedBoards(size) ==
    LET few == [1..size -> {[c \in 1..size |-> X], [c \in 1..size |-> U],
                            [c \in 1..size |-> IF c = 1 THEN O ELSE U]}]
    IN  {Tail(b) : b \in few}
        \cup {Append(b, b[1]) : b \in few}
        \cup {[b EXCEPT ![1] = Tail(@)] : b \in few}
        \cup {[b EXCEPT ![size] = Append(@, O)] : b \in few}

SerBoards(size) ==
    (IF size = 3 THEN [1..3 -> [1..3 -> Marks]] ELSE [1..4 -> EvalRows4])
    \cup MalformedBoards(size)

\* The boards a board's cache key is compared with.
KeyBoards(size) ==
    [1..size -> {[c \in 1..size |-> X], [c \in 1..size |-> U],
                 [c \in 1..size |-> IF c = 1 THEN O ELSE U]}]

CellCount(map) == Len(Flatten(map))

InitSer ==
    /\ size_board \in Sizes
    /\ mapping_moves \in SerBoards(size_board)
    /\ current_moves = InitMoves(size_board)
    /\ winning_combos = calculate_winning_combos(current_moves, size_board)
    /\ level = "EASY"
    /\ cache = EmptyCache
    /\ winner_exists = FALSE
    /\ predict_tie = FALSE
    /\ moves_made = 0
    /\ result = NoResult

SerUnchanged ==
    UNCHANGED <<size_board, current_moves, mapping_moves, winning_combos,
                level, cache, winner_exists, predict_tie, moves_made>>

\* board_to_str(mapping) on the engine's board
BoardToStr ==
    /\ result.op = "none"
    /\ result' = [op |-> "board_to_str", kind |-> "str",
                  str |-> board_to_str(mapping_moves)]
    /\ SerUnchanged

\* str_to_board(board_str, size) on the string board_to_str returned
StrToBoard ==
    /\ result.op = "board_to_str"
    /\ result' = IF Len(result.str) # size_board * size_board
                 THEN [op |-> "str_to_board", kind |-> "ValueError",
                       str |-> result.str]
                 ELSE [op |-> "str_to_board", kind |-> "board",
                       str |-> result.str,
                       board |-> str_to_board(result.str, size_board)]
    /\ SerUnchanged

\* _get_cache_key() of the engine and of an engine that holds another board
\* of the same size
GetCacheKey ==
    /\ result.op = "none"
    /\ CellCount(mapping_moves) = size_board * size_board
    /\ \E other \in KeyBoards(size_board) :
         result' = [op |-> "get_cache_key", kind |-> "str",
                    key |-> get_cache_key([map |-> mapping_moves]),
                    other_key |-> get_cache_key([map |-> other]),
                    same |-> (other = mapping_moves)]
    /\ SerUnchanged

NextSer ==
    \/ BoardToStr
    \/ StrToBoard
    \/ GetCacheKey

SpecSer == InitSer /\ [][NextSer]_vars

\* ------------------------------------------------------------------------
\* Properties.  result holds what the last operation returned; every
\* operation overwrites it, so a step whose result'.op is a select
\* operation is a step of that operation.
\* ------------------------------------------------------------------------
SelectOps == {"random", "medium", "medium_error", "hard", "very_hard"}

InBoard(pos, size) ==
    pos[1] \in 0..(size - 1) /\ pos[2] \in 0..(size - 1)

\* Some line of combos is entirely occupied by mark on map.
HasLine(map, combos, mark) ==
    \E i \in 1..Len(combos) :
        \A k \in 1..Len(combos[i]) :
            Cell(map, combos[i][k][1], combos[i][k][2]) = mark

\* The mark on the first line of combos that one mark occupies entirely.
FirstLineMark(map, combos) ==
    LET full == {i \in 1..Len(combos) :
                    \E mark \in {AI_MARK, PLAYER_MARK} :
                        \A k \in 1..Len(combos[i]) :
                            Cell(map, combos[i][k][1], combos[i][k][2]) = mark}
        first == CHOOSE i \in full : \A j \in full : i <= j
    IN  Cell(map, combos[first][1][1], combos[first][1][2])

\* The boosted evaluation of the position that Self's mark on pos leads to,
\* by an engine whose board is that position.
BoostedAfter(pos) ==
    LET board == SetCell(mapping_moves, pos[1], pos[2], AI_MARK)
    IN  evaluate_ai_score(TRUE, board, size_board, winning_combos, board)

\* C1: whenever the board has at least one empty cell, the select operation
\* of every tier returns a coordinate inside the board whose cell is empty
\* when the call is made, on the symbol board and on the detailed board;
\* Tier 3 does so too when its clock is past the limit at the first node.
C1_SelectReturnsEmptyCell ==
    [][(result'.op \in SelectOps
        /\ EmptyCount(mapping_moves, size_board) >= 1)
       => /\ result'.kind = "move"
          /\ InBoard(result'.move, size_board)
          /\ Cell(mapping_moves, result'.move[1], result'.move[2])
                = UNDERSCORE
          /\ Cell(current_moves, result'.move[1], result'.move[2]).animal
                = EMPTY]_vars

\* Tier 3, its clock past the limit at the first node, has returned an
\* empty cell of a board that has several.
C1_Witness ==
    /\ result.op = "very_hard"
    /\ result.budget = 0
    /\ result.outs >= 2
    /\ result.kind = "move"
    /\ InBoard(result.move, size_board)
    /\ Cell(mapping_moves, result.move[1], result.move[2]) = UNDERSCORE

\* C2: when no cell of the board is empty, the select operation of every
\* tier fails with the exhausted-state error and returns no coordinate.
C2_ExhaustedStateError ==
    (result.op \in SelectOps /\ EmptyCount(mapping_moves, size_board) = 0)
        => result.kind = "RuntimeError"

\* C3 as stated: on the 3x3 board with the rival on (0,0) and (1,1), Tier 2
\* and Tier 3 return (2,2) on every run, (2,2) being the only candidate
\* with the maximal backed-up value.
C3_BlocksOnEveryRun ==
    (result.op \in {"hard", "very_hard"} /\ mapping_moves = BlockBoard)
        => result.move = <<2, 2>> /\ result.top = << <<2, 2>> >>

\* C3: on the 3x3 board with the rival on (0,0) and (1,1), Tier 2 returns
\* (2,2) on every run, and so does every Tier 3 call in which no node finds
\* the clock past the limit; (2,2) is then the only candidate with the
\* maximal backed-up value.
C3_BlocksWithoutTimeout ==
    (result.op \in {"hard", "very_hard"} /\ mapping_moves = BlockBoard
     /\ result.outs = 0)
        => result.move = <<2, 2>> /\ result.top = << <<2, 2>> >>

\* Tier 3 has searched the board to the end, with cutoffs and cache hits,
\* and returned (2,2).
C3_Witness ==
    /\ result.op = "very_hard"
    /\ mapping_moves = BlockBoard
    /\ result.outs = 0
    /\ result.cold
    /\ result.cuts > 0
    /\ result.hits > 0
    /\ result.move = <<2, 2>>

\* C4: on the 3x3 board with the rival on (0,0) and (1,1), Tier 1 with the
\* random error off returns (2,2) on every run.
C4_MediumBlocks ==
    (result.op = "medium" /\ mapping_moves = BlockBoard)
        => result.move = <<2, 2>>

\* C5: a select call of any tier leaves the symbol board with the marks it
\* had before the call, and writes neither the detailed board nor the
\* winning lines.
C5_SelectRestoresBoards ==
    [][result'.op \in SelectOps
       => /\ mapping_moves' = mapping_moves
          /\ current_moves' = current_moves
          /\ winning_combos' = winning_combos]_vars

\* A Tier 3 call has returned a move after pruning cutoffs and cache hits.
C5_Witness ==
    /\ result.op = "very_hard"
    /\ result.kind = "move"
    /\ result.cuts > 0
    /\ result.hits > 0

\* C6: the cache is empty right after set_current_state and right after the
\* level is set.
C6_CacheEmptyAfterRefresh ==
    (\/ result.op \in {"set_level", "update_board_mapping", "reset_game"}
     \/ result.op = "process_move" /\ result.kind = "ok")
        => cache = EmptyCache

\* set_current_state has run on an engine whose cache held entries.
C6_Witness ==
    /\ result.op = "update_board_mapping"
    /\ ~result.cold
    /\ cache = EmptyCache

\* C7 as stated: a Tier 3 call that follows a Tier 3 call made on a cold
\* cache, the board unchanged and the cache reused, returns the coordinate
\* the first call returned.
C7_SecondCallSameMove ==
    [][(result.op = "very_hard" /\ result.cold /\ result'.op = "very_hard")
       => result'.move = result.move]_vars

\* C7: a Tier 3 call that follows a Tier 3 call made on a cold cache, the
\* board unchanged and the cache reused, returns the coordinate the first
\* call returned, provided no node of either call finds the clock past the
\* limit.
C7_SecondCallSameMoveInTime ==
    [][(/\ result.op = "very_hard" /\ result.cold /\ result.outs = 0
        /\ result'.op = "very_hard" /\ result'.outs = 0)
       => result'.move = result.move]_vars

\* A Tier 3 call has found every root candidate in the cache that a
\* complete search left, and no clock reading of it was past the limit.
C7_Witness ==
    /\ result.op = "very_hard"
    /\ ~result.cold
    /\ result.outs = 0
    /\ Len(result.values) >= 2
    /\ result.hits = Len(result.values)
    /\ result.n = Len(result.values)

\* C8: among the root candidates that share the maximal backed-up value
\* Tier 3 returns the one whose resulting position has the highest boosted
\* evaluation, the first found of those with equal evaluations; a single
\* candidate with the maximal value is returned directly.
C8_TieBreakByBoostedEvaluation ==
    (result.op = "very_hard" /\ result.kind = "move" /\ result.top # <<>>)
        => \E i \in 1..Len(result.top) :
              /\ result.move = result.top[i]
              /\ \A j \in 1..Len(result.top) :
                    \/ BoostedAfter(result.top[j]) < BoostedAfter(result.top[i])
                    \/ /\ BoostedAfter(result.top[j])
                            = BoostedAfter(result.top[i])
                       /\ i <= j

\* C9 as stated: non-boosted evaluation is 10 on every board with a line
\* entirely Self's and -10 on every board with a line entirely the
\* rival's.
C9_LineDecidesScore ==
    result.op = "evaluate"
        => /\ HasLine(mapping_moves, winning_combos, AI_MARK)
                => result.score = WIN_SCORE
           /\ HasLine(mapping_moves, winning_combos, PLAYER_MARK)
                => result.score = -WIN_SCORE

\* C9: non-boosted evaluation of a board on which some line is entirely
\* occupied by one mark is 10 when the first such line, in the order of
\* the winning lines, is Self's and -10 when it is the rival's; so it is
\* 10 when only Self has such a line and -10 when only the rival has.
C9_FirstLineDecidesScore ==
    (result.op = "evaluate"
     /\ \/ HasLine(mapping_moves, winning_combos, AI_MARK)
        \/ HasLine(mapping_moves, winning_combos, PLAYER_MARK))
        => result.score =
              IF FirstLineMark(mapping_moves, winning_combos) = AI_MARK
              THEN WIN_SCORE ELSE -WIN_SCORE

\* A 4x4 board with a line of each player has been evaluated, Self's line
\* coming first.
C9_Witness ==
    /\ result.op = "evaluate"
    /\ size_board = 4
    /\ HasLine(mapping_moves, winning_combos, AI_MARK)
    /\ HasLine(mapping_moves, winning_combos, PLAYER_MARK)
    /\ result.score = WIN_SCORE

\* C10: non-boosted evaluation is 0 on the empty board and on every board
\* without a line entirely occupied by one mark, it is always one of -10,
\* 0 and 10, and an evaluation changes neither the board nor the cache.
C10_EvaluateNeutral ==
    /\ [](result.op = "evaluate"
          => /\ result.score \in {-WIN_SCORE, 0, WIN_SCORE}
             /\ (/\ ~HasLine(mapping_moves, winning_combos, AI_MARK)
                 /\ ~HasLine(mapping_moves, winning_combos, PLAYER_MARK))
                   => result.score = 0)
    /\ [][result'.op \in {"evaluate", "evaluate_boost"}
          => /\ mapping_moves' = mapping_moves
             /\ current_moves' = current_moves
             /\ cache' = cache]_vars

\* A board that holds marks of both players and no complete line has been
\* evaluated to 0.
C10_Witness ==
    /\ result.op = "evaluate"
    /\ result.score = 0
    /\ EmptyCount(mapping_moves, size_board) <= 2
    /\ ~HasLine(mapping_moves, winning_combos, AI_MARK)
    /\ ~HasLine(mapping_moves, winning_combos, PLAYER_MARK)

\* An N x N board whose cells are each one of the three mark symbols.
WellFormed(map, size) ==
    /\ Len(map) = size
    /\ \A r \in 1..Len(map) :
          /\ Len(map[r]) = size
          /\ \A c \in 1..size : map[r][c] \in Marks

\* C11: for every N x N board whose cells are each one of the three mark
\* symbols, str_to_board(board_to_str(board), N) is the board itself, and
\* a board of the same size that has the same cache key is the same board.
C11_RoundTripAndDistinctKeys ==
    /\ (result.op = "str_to_board" /\ WellFormed(mapping_moves, size_board))
          => result.kind = "board" /\ result.board = mapping_moves
    /\ (result.op = "get_cache_key" /\ result.key = result.other_key)
          => result.same

\* A 4x4 board that holds all three symbols has come back from its string.
C11_Witness ==
    /\ result.op = "str_to_board"
    /\ size_board = 4
    /\ WellFormed(mapping_moves, size_board)
    /\ {U, O, X} \subseteq SeqToSet(Flatten(mapping_moves))
    /\ result.kind = "board"
    /\ result.board = mapping_moves

\* C12: board_to_str on a board whose number of cells is not N squared
\* fails with a format error and returns no string.
C12_WrongCellCountFails ==
    (result.op = "board_to_str"
     /\ CellCount(mapping_moves) # size_board * size_board)
        => result.kind = "ValueError"

\* C13: a call of min_max_medium, min_max_hard or min_max_very_hard whose
\* turn flag is not a bool or whose depth is not an int raises TypeError
\* before any node is searched: the board is left as it was, no child loop
\* is entered, and the cache is neither read nor written.
C13_TypeErrorBeforeSearch ==
    [][(/\ result'.op \in {"min_max_medium", "min_max_hard",
                          "min_max_very_hard"}
        /\ \/ ~isinstance_bool(result'.turn_max)
           \/ ~isinstance_int(result'.depth))
       => /\ result'.kind = "TypeError"
          /\ mapping_moves' = mapping_moves
          /\ cache' = cache
          /\ result'.n = 0
          /\ result'.hits = 0
          /\ result'.loops = 0
          /\ result'.stores = 0]_vars

\* min_max_very_hard has rejected the turn flag 1 on an engine whose cache
\* holds the board it was called on.
C13_Witness ==
    /\ result.op = "min_max_very_hard"
    /\ result.kind = "TypeError"
    /\ result.turn_max = PyInt(1)
    /\ isinstance_int(result.depth)
    /\ get_cache_key(St0) \in DOMAIN cache


\* C14: get_ai_move_by_level with a level that is none of the four tiers
\* fails with the RuntimeError 'Unsupported AI difficulty level' and with no
\* other error, and runs no search: no move comes back, no node is entered
\* and the board is as it was.
C14_UnsupportedLevelRuntimeError ==
    [][(/\ result'.op = "get_ai_move_by_level"
        /\ result'.lv \notin Tiers)
       => /\ result'.kind = "RuntimeError"
          /\ result'.msg = "Unsupported AI difficulty level"
          /\ result'.move = NoMove
          /\ result'.n = 0
          /\ mapping_moves' = mapping_moves]_vars


\* C15: Tier 1 skips the search and returns Tier 0's random choice exactly
\* when the board is larger than 3x3 and more than N * N - 4 cells are
\* empty.
C15_SkipsOnLargerBoards ==
    result.op = "should_skip_minimax_opening"
        => (result.kind = "True")
             = (/\ size_board > 3
                /\ EmptyCount(mapping_moves, size_board)
                     > size_board * size_board - 4)

\* C15 (as the code has it): Tier 1 skips the search exactly when the board
\* is 4x4 and more than 12 cells are empty.  A call that makes no simulated
\* error then returns any empty cell without evaluating a candidate, without
\* reading the clock and with the board as it was; on every other board such
\* a call evaluates every empty cell.
C15_SkipsOn4x4Opening ==
    /\ result.op = "should_skip_minimax_opening"
         => (result.kind = "True")
              = (/\ size_board = 4
                 /\ EmptyCount(mapping_moves, size_board) > 12)
    /\ (result.op = "medium" /\ result.kind = "move")
         => IF size_board = 4 /\ EmptyCount(mapping_moves, size_board) > 12
            THEN /\ result.values = <<>>
                 /\ result.n = 0
                 /\ mapping_moves = update_board_mapping(current_moves,
                                                         size_board)
                 /\ Cell(mapping_moves, result.move[1], result.move[2])
                      = UNDERSCORE
            ELSE Len(result.values)
                   = EmptyCount(mapping_moves, size_board)

\* A 4x4 board with 13 empty cells on which the search was skipped, the
\* answer being the last empty cell.
C15_Witness ==
    /\ result.op = "medium"
    /\ size_board = 4
    /\ EmptyCount(mapping_moves, size_board) = 13
    /\ result.values = <<>>
    /\ result.move = <<3, 3>>


\* C16: _process_move on an occupied cell, after a winner exists or after a
\* tie is predicted raises InvalidMoveError and leaves both boards and both
\* flags as they were; a move on an empty cell of an unfinished game is
\* accepted and occupies exactly that cell, on the detailed board and, by
\* its mark, on the symbol board.
C16_ProcessMoveValidates ==
    [][result'.op = "process_move" =>
         IF \/ Cell(current_moves, result'.move[1], result'.move[2]).animal
                # EMPTY
            \/ winner_exists
            \/ predict_tie
         THEN /\ result'.kind = "InvalidMoveError"
              /\ current_moves' = current_moves
              /\ mapping_moves' = mapping_moves
              /\ winner_exists' = winner_exists
              /\ predict_tie' = predict_tie
         ELSE /\ result'.kind = "ok"
              /\ Cell(current_moves', result'.move[1],
                      result'.move[2]).animal
                   \in {MACHINE_ANIMAL, HUMAN_ANIMAL}
              /\ current_moves'
                   = SetCell(current_moves, result'.move[1], result'.move[2],
                             Cell(current_moves', result'.move[1],
                                  result'.move[2]))
              /\ mapping_moves'
                   = SetCell(mapping_moves, result'.move[1], result'.move[2],
                             IF Cell(current_moves', result'.move[1],
                                     result'.move[2]).animal = MACHINE_ANIMAL
                             THEN AI_MARK ELSE PLAYER_MARK)]_vars

\* A move on an empty cell was refused because a tie is predicted, no line
\* being complete.
C16_Witness ==
    /\ result.op = "process_move"
    /\ result.kind = "InvalidMoveError"
    /\ predict_tie
    /\ ~winner_exists
    /\ Cell(current_moves, result.move[1], result.move[2]).animal = EMPTY


\* C17: min_max_medium entered at depth d on a board with a complete line
\* returns 10 - d when the line is Self's and -10 + d when it is the
\* rival's, whoever is to move.
C17_MediumLineScoreByDepth ==
    (result.op = "min_max_medium" /\ result.kind = "value")
        => /\ HasLine(mapping_moves, winning_combos, AI_MARK)
                => result.score = WIN_SCORE - result.depth.v
           /\ HasLine(mapping_moves, winning_combos, PLAYER_MARK)
                => result.score = -WIN_SCORE + result.depth.v


C19_TimeCutoffLeaves ==
    [][(/\ result'.op = "min_max_very_hard"
        /\ result'.kind = "value"
        /\ result'.budget # NoTimeout)
       => /\ result'.outs = IF result'.n > result'.budget
                            THEN result'.n - result'.budget ELSE 0
          /\ result'.hits + result'.loops <= result'.budget
          /\ result'.stores = result'.loops
          /\ result'.n <= 1 + result'.budget
                               * EmptyCount(mapping_moves, size_board)
          /\ mapping_moves' = mapping_moves
          /\ result'.budget = 0
               => /\ result'.score
                       = evaluate_ai_score(FALSE, mapping_moves, size_board,
                                           winning_combos, mapping_moves)
                  /\ result'.n = 1
                  /\ cache' = cache]_vars

\* A search whose budget ran out at its third node: the nodes entered later
\* all left by the time cutoff.
C19_Witness ==
    /\ result.op = "min_max_very_hard"
    /\ result.kind = "value"
    /\ result.budget = 2
    /\ result.loops = 2
    /\ result.outs > 2
    /\ result.n = result.outs + 2


\* C20: every node of _minimax_core tests, in this order, the time budget
\* and the depth limit, then the cache, then the terminal state, and only
\* then enters its child loop.  A node that enters its loop writes its
\* backed-up value to the cache exactly once before it returns, also when
\* the loop ended by a pruning cutoff; a node that leaves by a cutoff, a
\* cache hit or a terminal state writes nothing.  Seen from the root of a
\* call: past the budget or at the depth limit the static evaluation comes
\* back even when the board is cached; otherwise a cached board answers
\* with its cached value; otherwise a finished board answers without a
\* loop; otherwise the loop runs and the root's value is in the cache.  In
\* every search the cache was written once per loop entered.
C20_NodeOrderAndCacheWrite ==
    [][(/\ result'.op \in {"min_max_hard", "min_max_very_hard"}
        /\ result'.kind = "value")
       => /\ result'.stores = result'.loops
          /\ Cardinality(DOMAIN cache')
               <= Cardinality(DOMAIN cache) + result'.stores
          /\ IF \/ (result'.op = "min_max_very_hard" /\ result'.budget = 0)
                \/ /\ result'.op = "min_max_hard"
                   /\ result'.depth.v >= AIConfigDepth("HARD")
             THEN /\ result'.score
                       = evaluate_ai_score(FALSE, mapping_moves, size_board,
                                           winning_combos, mapping_moves)
                  /\ result'.hits = 0
                  /\ result'.loops = 0
                  /\ cache' = cache
             ELSE IF get_cache_key(St0) \in DOMAIN cache
             THEN /\ result'.score = cache[get_cache_key(St0)]
                  /\ result'.hits = 1
                  /\ result'.loops = 0
                  /\ cache' = cache
             ELSE IF evaluate_terminal_state(
                        [size |-> size_board, combos |-> winning_combos],
                        St0, result'.depth.v).terminal
             THEN /\ result'.score
                       = evaluate_terminal_state(
                            [size |-> size_board, combos |-> winning_combos],
                            St0, result'.depth.v).score
                  /\ result'.hits = 0
                  /\ result'.loops = 0
                  /\ cache' = cache
             ELSE /\ result'.loops >= 1
                  /\ get_cache_key(St0) \in DOMAIN cache'
                  /\ cache'[get_cache_key(St0)] = result'.score]_vars

\* A search on an empty cache in which a loop ended by a pruning cutoff:
\* every loop entered wrote the cache and the root's value is in it.
C20_Witness ==
    /\ result.op = "min_max_hard"
    /\ result.kind = "value"
    /\ result.cold
    /\ result.cuts > 0
    /\ result.loops > 1
    /\ result.stores = result.loops
    /\ get_cache_key(St0) \in DOMAIN cache
    /\ cache[get_cache_key(St0)] = result.score


\* C21: in the pruned search the children of a node are explored in the
\* order center, corner, edge: every empty center cell, the center being
\* what the evaluator takes it to be (the middle cell of an odd board, the
\* central 2x2 block of an even one), comes before every empty corner, and
\* every empty corner before every other empty cell.
C21_CenterCornerEdgeOrder ==
    result.op = "sort_remaining_moves"
        => \A i, j \in 1..Len(result.values) :
             i < j =>
               /\ result.values[j] \in CenterCells(size_board)
                    => result.values[i] \in CenterCells(size_board)
               /\ (/\ result.values[j][1] \in {0, size_board - 1}
                   /\ result.values[j][2] \in {0, size_board - 1})
                    => \/ result.values[i] \in CenterCells(size_board)
                       \/ /\ result.values[i][1] \in {0, size_board - 1}
                          /\ result.values[i][2] \in {0, size_board - 1}


\* C22: the boosted score is round(base_score + m + 0.2 * s), m being the
\* greatest of the boosted contributions of the lines and s the sum of all
\* the others, that is of every contribution but the one taken as m: a line
\* whose contribution equals m and is not that line is counted in s.
C22_BoostIsMaxPlusFifthOfOthers ==
    (result.op = "evaluate_boost"
     /\ BoostScores(mapping_moves, size_board, winning_combos,
                    mapping_moves) # <<>>)
        => result.score
             = RoundFifths(
                 5 * (calculate_base_score(mapping_moves, size_board,
                                           winning_combos, mapping_moves)
                      + MaxSeq(BoostScores(mapping_moves, size_board,
                                           winning_combos, mapping_moves)))
                 + SumSeq(BoostScores(mapping_moves, size_board,
                                      winning_combos, mapping_moves))
                 - MaxSeq(BoostScores(mapping_moves, size_board,
                                      winning_combos, mapping_moves)))


\* C23: in boosted mode the threat-table part of a fully empty line, which
\* is its contribution less the positional bonus of its cells and less its
\* symmetry bonus, is exactly +1 (100 hundredths) on 3x3 and on 4x4 boards.
C23_EmptyLineThreatIsOne ==
    (/\ result.op = "calculate_boost_score"
     /\ size_board \in {3, 4}
     /\ \A i \in 1..Len(result.values) :
           Cell(mapping_moves, result.values[i][1], result.values[i][2])
             = UNDERSCORE)
        => result.score
             - SumSeq(List([i \in 1..Len(result.values) |->
                   positional_score_extended(result.values[i][1],
                                             result.values[i][2],
                                             size_board)]))
             - symmetry_score(result.values, size_board)
           = 100


\* C24: the boosted evaluation of a board B passed as an override equals the
\* boosted evaluation of B by an engine whose own board is B: the counts of
\* marks and the positional bonus over the empty cells of each line are both
\* taken from B, not from the board the engine holds.
C24_OverrideEvaluatedOnItself ==
    result.op = "evaluate_boost_map"
        => result.score
             = evaluate_ai_score(TRUE,
                   SetCell(mapping_moves, result.move[1], result.move[2],
                           AI_MARK),
                   size_board, winning_combos,
                   SetCell(mapping_moves, result.move[1], result.move[2],
                           AI_MARK))


\* C25: at Tiers 1 and 2, the error step off and the search not skipped,
\* the candidates the choice is made among are exactly the root candidates
\* whose backed-up value is the greatest of all, all of them, and the
\* coordinate returned is one of them, so never a candidate of smaller
\* value; random.choice is free to return any of them.
C25_ReturnsAnyMaximalCandidate ==
    [][(/\ result'.op \in {"medium", "hard"}
        /\ result'.kind = "move"
        /\ result'.values # <<>>)
       => /\ Len(result'.values)
               = Len(remaining_moves_logical(current_moves, size_board))
          /\ SeqToSet(result'.top)
               = {remaining_moves_logical(current_moves, size_board)[i] :
                    i \in {j \in 1..Len(result'.values) :
                             result'.values[j] = MaxSeq(result'.values)}}
          /\ result'.move \in SeqToSet(result'.top)]_vars

\* Tier 2 has returned the second of several candidates of greatest value,
\* another candidate having a smaller one.
C25_Witness ==
    /\ result.op = "hard"
    /\ result.kind = "move"
    /\ Len(result.top) >= 2
    /\ result.move = result.top[2]
    /\ \E i \in 1..Len(result.values) :
          result.values[i] < MaxSeq(result.values)


\* C26: every select call ends, with a coordinate or with an error, and the
\* recursion of its search never nests deeper than the number of cells that
\* were empty when the call started, which is at most N * N and so at most
\* 16, at every tier and with or without a time-out.
C26_RecursionWithinEmptyCells ==
    [][result'.op \in SelectOps
       => /\ result'.kind \in {"move", "RuntimeError", "TypeError"}
          /\ result'.deep
               <= Len(remaining_moves_logical(current_moves, size_board))
          /\ result'.deep <= size_board * size_board
          /\ result'.deep <= 16]_vars

\* Tier 3 without a time-out has searched a board of at least four empty
\* cells down to the full board.
C26_Witness ==
    /\ result.op = "very_hard"
    /\ result.kind = "move"
    /\ result.budget = NoTimeout
    /\ EmptyCount(mapping_moves, size_board) >= 4
    /\ result.deep = EmptyCount(mapping_moves, size_board)


RECURSIVE ExactMinimax(_, _, _, _, _)
\* The minimax value of a position by a full-width search without a cache:
\* a line of Self found at depth scores 10 - depth, a line of the rival
\* -10 + depth, a full board without a line 0.
ExactMinimax(map, size, combos, depth, turn_max) ==
    IF HasLine(map, combos, AI_MARK) THEN WIN_SCORE - depth
    ELSE IF HasLine(map, combos, PLAYER_MARK) THEN -WIN_SCORE + depth
    ELSE IF remaining_moves_mapping(map, size) = <<>> THEN 0
    ELSE MaxSeq(List([i \in 1..Len(remaining_moves_mapping(map, size)) |->
             (IF turn_max THEN 1 ELSE -1)
             * ExactMinimax(
                   SetCell(map, remaining_moves_mapping(map, size)[i][1],
                           remaining_moves_mapping(map, size)[i][2],
                           IF turn_max THEN AI_MARK ELSE PLAYER_MARK),
                   size, combos, depth + 1, ~turn_max)]))
         * (IF turn_max THEN 1 ELSE -1)

\* C27: with a cold cache and no time-out, the value Tier 3 backs up for
\* every root candidate is the exact minimax value of the position the
\* candidate leads to, under the scoring 10 - d for a win of Self at depth
\* d, -10 + d for a win of the rival and 0 for a draw: pruning and cache
\* hits change no root value.
C27_RootValuesExact ==
    (/\ result.op = "very_hard"
     /\ result.kind = "move"
     /\ result.cold
     /\ result.budget = NoTimeout)
        => \A i \in 1..Len(result.values) :
              result.values[i]
                = ExactMinimax(
                      SetCell(mapping_moves,
                          remaining_moves_logical(current_moves,
                                                  size_board)[i][1],
                          remaining_moves_logical(current_moves,
                                                  size_board)[i][2],
                          AI_MARK),
                      size_board, winning_combos, 0, FALSE)


\* C28: whenever Self has a move that completes a line at once, the select
\* call returns a move that completes a line: at Tier 1 with the error step
\* off and the search not skipped, at Tier 2, and at Tier 3 when no node
\* finds the clock past the limit.
C28_TakesImmediateWin ==
    (/\ result.op \in {"medium", "hard", "very_hard"}
     /\ result.kind = "move"
     /\ result.values # <<>>
     /\ result.outs = 0
     /\ \E i \in 1..EmptyCount(mapping_moves, size_board) :
           HasLine(SetCell(mapping_moves,
                       remaining_moves_mapping(mapping_moves,
                                               size_board)[i][1],
                       remaining_moves_mapping(mapping_moves,
                                               size_board)[i][2],
                       AI_MARK),
                   winning_combos, AI_MARK))
        => HasLine(SetCell(mapping_moves, result.move[1], result.move[2],
                           AI_MARK),
                   winning_combos, AI_MARK)


\* The cells a cached board fills with mark where the engine's board is empty
AddedMarks(key, mark) ==
    Cardinality({i \in 1..Len(key) :
                    /\ key[i] = mark
                    /\ board_to_str(mapping_moves)[i] = UNDERSCORE})

\* C29: every request issued through get_ai_move_by_level searches from an
\* empty cache, whatever committed moves, resets and requests came before:
\* a request repeated on the cache its predecessor filled counts the same
\* hits and stores nothing else, a hit needs a store of the request; and
\* every board the request leaves in the cache extends the board it started
\* from by k >= 1 marks placed in turn, Self first, so the board alone fixes
\* the depth k - 1 and the player to move of the node that stored it.
C29_RequestSearchesFromEmptyCache ==
    /\ [](result.op = "get_ai_move_by_level"
            => /\ (result.hits > 0 => cache # EmptyCache)
               /\ \A key \in DOMAIN cache :
                    /\ Len(key) = size_board * size_board
                    /\ \A i \in 1..Len(key) :
                          board_to_str(mapping_moves)[i] # UNDERSCORE
                             => key[i] = board_to_str(mapping_moves)[i]
                    /\ AddedMarks(key, AI_MARK) >= 1
                    /\ AddedMarks(key, AI_MARK)
                         - AddedMarks(key, PLAYER_MARK) \in {0, 1})
    /\ [][(/\ result.op = "get_ai_move_by_level"
           /\ result'.op = "get_ai_move_by_level"
           /\ result.kind = "move"
           /\ result'.kind = "move"
           /\ result'.lv = result.lv
           /\ result'.budget = result.budget)
              => /\ result'.hits = result.hits
                 /\ result'.n = result.n
                 /\ result'.cuts = result.cuts
                 /\ cache' = cache]_vars

\* A Tier 3 request issued on a cache that an earlier request had filled,
\* whose own search stored boards and hit some of them
C29_Witness ==
    /\ result.op = "get_ai_move_by_level"
    /\ result.lv = "VERY_HARD"
    /\ result.kind = "move"
    /\ ~result.cold
    /\ result.hits > 0
    /\ cache # EmptyCache


\* C30 as stated: only Tier 3 reads and writes the transposition cache, so
\* a select call at Tier 0, Tier 1 or Tier 2 leaves the cache exactly as it
\* was before the call.
C30_OnlyTierThreeUsesCache ==
    [][result'.op \in {"random", "medium", "medium_error", "hard"}
          => cache' = cache]_vars

\* C30 as the code has it: min_max_hard runs the same _minimax_core as Tier
\* 3, cache included, so only a select call at Tier 0 or Tier 1 leaves the
\* cache exactly as it was before the call, and a Tier 2 call that changes
\* it only adds boards.
C30_TiersZeroAndOneLeaveCache ==
    [][/\ result'.op \in {"random", "medium", "medium_error"}
          => cache' = cache
       /\ result'.op = "hard"
          => \A key \in DOMAIN cache :
                key \in DOMAIN cache' /\ cache'[key] = cache[key]]_vars

\* A Tier 1 call that ran its search over several candidates and left the
\* cache as it found it
C30_Witness ==
    /\ result.op = "medium"
    /\ result.kind = "move"
    /\ Len(result.values) > 1
    /\ result.deep > 1
    /\ cache = EmptyCache

====
